---- MODULE Spec2Model ----
(***************************************************************************)
(* The asset-path class of geetools (src/geetools/Asset/__init__.py) and   *)
(* its folder-tree operations mkdir, copy, move, rmdir and unlink, run     *)
(* against a remote asset store.  One step of the model is one statement   *)
(* group of the Python code that ends in at most one mutating store call   *)
(* (createAsset, copyAsset, deleteAsset); the recursion of copy and move   *)
(* and the loops of mkdir and rmdir are unfolded on an explicit agenda of  *)
(* pending instructions (the continuation of the running call).            *)
(***************************************************************************)
EXTENDS Integers, Sequences, FiniteSets, TLC

\* ------------------------------------------------------------------ bounds
\* child names of the modelled namespace, in the store's listing order
Names == <<"a", "b">>

\* the asset names of the stores that are only listed and queried
QueryNames == <<"img1", "img2", "tab1">>

\* the order in which the store lists the children of one folder
StoreOrder == Names \o QueryNames
\* deepest identifier (components below the project root) the store accepts
MaxDepth == 4
\* depth and size of the asset trees the store starts with
InitDepth == 3
MaxNodes == 3
\* depth of the paths handed to the operations
ArgDepth == 2

\* ------------------------------------------------------------------ paths
\* ee.Asset.home(): "projects/<project>/assets"
Root == <<"projects", "p", "assets">>

\* PurePosixPath.parent: the parent of the empty path is the empty path
Parent(p) == IF Len(p) = 0 THEN p ELSE SubSeq(p, 1, Len(p) - 1)

\* mutant: the root of the project is not among the patterns
IsScaffold_ThreePatterns(q) ==
    \/ Len(q) = 0
    \/ Len(q) = 1 /\ q[1] = "projects"
    \/ Len(q) = 2 /\ q[1] = "projects"

\* the four patterns of Asset.parents: ".", "projects", "projects/x", "projects/x/assets"
IsScaffold(q) ==
    \/ Len(q) = 0
    \/ Len(q) = 1 /\ q[1] = "projects"
    \/ Len(q) = 2 /\ q[1] = "projects"
    \/ Len(q) = 3 /\ q[1] = "projects" /\ q[3] = "assets"

\* PurePosixPath.parents: the proper prefixes, the immediate parent first
PathParents(p) == [i \in 1..Len(p) |-> SubSeq(p, 1, Len(p) - i)]

\* Asset.parents
Parents(p) == SelectSeq(PathParents(p), LAMBDA q : ~IsScaffold(q))

\* Asset.is_absolute
IsAbsolute(p) == Len(p) >= 3 /\ p[1] = "projects" /\ p[3] = "assets"

\* Asset.is_project
IsProject(p) == IsAbsolute(p) /\ Len(p) = 3

\* Asset.is_relative_to
IsRelativeTo(p, other) == Len(other) <= Len(p) /\ SubSeq(p, 1, Len(other)) = other

\* new_asset / asset._path.relative_to(self._path)
Rebase(child, src, dst) == dst \o SubSeq(child, Len(src) + 1, Len(child))

Reverse(s) == [i \in 1..Len(s) |-> s[Len(s) + 1 - i]]

Depth(p) == Len(p) - Len(Root)

\* ------------------------------------------------------------------ store
\* The remote store is a function from the identifiers that have a record to
\* the record's type tag.
VARIABLES store, agenda, status, err, errPath, op, store0, calls, output,
          attempt, reads, down, result

vars == <<store, agenda, status, err, errPath, op, store0, calls, output,
          attempt, reads, down, result>>

\* the records a getAsset query finds: none while the store refuses queries
Seen(s) == IF down THEN [q \in {} |-> "NONE"] ELSE s

\* the queries of the running call so far, after one more was issued:
\* "none" before the first, "failed" once the store refused one
Read(r) == IF down \/ r = "failed" THEN "failed" ELSE "ok"

\* ee.data.getAsset succeeds
Exists(s, p) == p \in DOMAIN s

TypeOf(s, p) == IF p \in DOMAIN s THEN s[p] ELSE "NONE"

Children(s, p) == {q \in DOMAIN s : Len(q) = Len(p) + 1 /\ Parent(q) = p}

Descendants(s, p) == {q \in DOMAIN s : Len(q) > Len(p) /\ IsRelativeTo(q, p)}

\* ee.data.listAssets({"parent": p})["assets"], in the store's order
ListAssets(s, p) ==
    SelectSeq([i \in 1..Len(StoreOrder) |-> p \o <<StoreOrder[i]>>],
              LAMBDA q : q \in DOMAIN s)

\* a folder can hold children: a FOLDER record, or the project root
HoldsChildren(s, p) == p = Root \/ TypeOf(s, p) = "FOLDER"

\* mutant: the store accepts the creation of an asset that exists
CreateOk_Overwrites(s, x) ==
    /\ IsAbsolute(x) /\ Depth(x) >= 1 /\ Depth(x) <= MaxDepth
    /\ HoldsChildren(s, Parent(x))

\* ee.data.createAsset({"type": "FOLDER"}, x) is accepted
CreateOk(s, x) ==
    /\ ~Exists(s, x)
    /\ IsAbsolute(x) /\ Depth(x) >= 1 /\ Depth(x) <= MaxDepth
    /\ HoldsChildren(s, Parent(x))

\* ee.data.copyAsset(a, b, allowOverwrite=True) is accepted
CopyOk(s, a, b) ==
    /\ Exists(s, a) /\ s[a] # "FOLDER"
    /\ IsAbsolute(b) /\ Depth(b) >= 1 /\ Depth(b) <= MaxDepth
    /\ HoldsChildren(s, Parent(b))
    /\ TypeOf(s, b) # "FOLDER"

\* ee.data.deleteAsset(x) is accepted
DeleteOk(s, x) == Exists(s, x) /\ x # Root /\ Children(s, x) = {}

Put(s, x, t) == [q \in DOMAIN s \cup {x} |-> IF q = x THEN t ELSE s[q]]

Drop(s, x) == [q \in DOMAIN s \ {x} |-> s[q]]

\* ------------------------------------------------------------------ listing
\* mutant: a folder is appended after its own listing
RECURSIVE RecursiveGet_FolderLast(_, _)
RecursiveGet_FolderLast(s, folder) ==
    LET ch == ListAssets(s, folder)
        acc[i \in 0..Len(ch)] ==
            IF i = 0 THEN <<>>
            ELSE acc[i - 1]
                 \o (IF s[ch[i]] = "FOLDER" THEN RecursiveGet_FolderLast(s, ch[i]) ELSE <<>>)
                 \o <<ch[i]>>
    IN acc[Len(ch)]

\* _recursive_get of Asset.iterdir: every child, and right after a FOLDER child
\* the listing of that child
RECURSIVE RecursiveGet(_, _)
RecursiveGet(s, folder) ==
    LET ch == ListAssets(s, folder)
        acc[i \in 0..Len(ch)] ==
            IF i = 0 THEN <<>>
            ELSE acc[i - 1] \o <<ch[i]>>
                 \o (IF s[ch[i]] = "FOLDER" THEN RecursiveGet(s, ch[i]) ELSE <<>>)
    IN acc[Len(ch)]

\* Asset.iterdir, once its sanity check has passed
Iterdir(s, p, recursive) == IF recursive THEN RecursiveGet(s, p) ELSE ListAssets(s, p)

\* the sanity check of iterdir: is_project() or is_type("FOLDER", raised=True)
IterdirCheck(s, p) ==
    IF IsProject(p) THEN "ok"
    ELSE IF ~Exists(s, p) THEN "NotFound"
    ELSE IF s[p] # "FOLDER" THEN "WrongType"
    ELSE "ok"

MaxLevel(lst) == IF Len(lst) = 0 THEN 0
                 ELSE CHOOSE n \in {Len(lst[i]) : i \in 1..Len(lst)} :
                        \A i \in 1..Len(lst) : Len(lst[i]) <= n

\* the buckets of rmdir, one per number of parts, walked from lvl downwards
RECURSIVE ByLevel(_, _)
ByLevel(lst, lvl) ==
    IF lvl <= 0 THEN <<>>
    ELSE SelectSeq(lst, LAMBDA q : Len(q) = lvl) \o ByLevel(lst, lvl - 1)

\* mutant: the listing is deleted in the order iterdir returned it
AssetsOrdered_AsListed(lst) == lst

\* mutant: the buckets are walked from the shallowest level
AssetsOrdered_ShallowFirst(lst) == Reverse(ByLevel(lst, MaxLevel(lst)))

\* assets_ordered of rmdir: the listing split by nesting level, deepest level first
AssetsOrdered(lst) == ByLevel(lst, MaxLevel(lst))

\* ------------------------------------------------------------------ instructions
\* A pending instruction: its kind, its two paths, its two flags and the dry_run
\* argument of rmdir ("none" when it is not supplied).
Ins(k, p, q, f, g, d) == <<k, p, q, f, g, d>>

Kind(i) == i[1]
\* self, the asset the method is called on
Self(i) == i[2]
\* new_asset, the destination of copy and move
New(i) == i[3]
\* overwrite of copy and move, parents of mkdir, recursive of rmdir
FlagA(i) == i[4]
\* whether copy is run as move, exist_ok of mkdir, the dry_run in effect of delete
FlagB(i) == i[5]
DryArg(i) == i[6]

\* copy(src, dst, overwrite) when mv is FALSE, move(src, dst, overwrite) when TRUE
CopyI(src, dst, ow, mv) == Ins("copy", src, dst, ow, mv, "none")
\* the if self.is_folder() of copy and move
BranchI(src, dst, ow, mv) == Ins("branch", src, dst, ow, mv, "none")
\* the for asset in self.iterdir() of copy and move
IterI(src, dst, ow, mv) == Ins("iter", src, dst, ow, mv, "none")
CopyAssetI(src, dst) == Ins("copyAsset", src, dst, FALSE, FALSE, "none")
UnlinkI(p) == Ins("unlink", p, <<>>, FALSE, FALSE, "none")
MkdirI(p, parents, exist_ok) == Ins("mkdir", p, <<>>, parents, exist_ok, "none")
CreateI(p) == Ins("create", p, <<>>, FALSE, FALSE, "none")
RmdirI(p, recursive, dry) == Ins("rmdir", p, <<>>, recursive, FALSE, dry)
\* the local function delete of rmdir, with the dry_run it closes over
DeleteI(p, dry) == Ins("delete", p, <<>>, FALSE, dry, "none")

NoOp == Ins("none", <<>>, <<>>, FALSE, FALSE, "none")

\* a mutating store call, as it was issued
CallRec(c, p, q, ok) == <<c, p, q, ok>>

CallName(c) == c[1]
CallPath(c) == c[2]
CallDest(c) == c[3]
CallOk(c) == c[4]

\* ------------------------------------------------------------------ initial stores
RECURSIVE PathsAt(_)
PathsAt(d) == IF d = 0 THEN {Root}
              ELSE {p \o <<Names[i]>> : p \in PathsAt(d - 1), i \in 1..Len(Names)}

PathsUpTo(d) == UNION {PathsAt(i) : i \in 1..d}

\* the tree shapes of at most n assets: every asset's parent is in the tree or is the root
RECURSIVE Shapes(_)
Shapes(n) ==
    IF n = 0 THEN {{}}
    ELSE LET prev == Shapes(n - 1) IN
         prev \cup UNION {{T \cup {x} :
                              x \in {y \in PathsUpTo(InitDepth) :
                                        Parent(y) = Root \/ Parent(y) \in T}} : T \in prev}

\* the typings of a shape: an asset that has children is a FOLDER
Typings(T) ==
    {f \in [T -> {"FOLDER", "IMAGE"}] :
        \A x \in T : Parent(x) \in T => f[Parent(x)] = "FOLDER"}

\* the store may or may not report a record for the project root itself
InitStores ==
    LET trees == UNION {Typings(T) : T \in Shapes(MaxNodes)}
    IN trees \cup {Put(f, Root, "FOLDER") : f \in trees}

ArgPaths == PathsUpTo(ArgDepth)

Init ==
    /\ store \in InitStores
    /\ store0 = store
    /\ agenda = <<>>
    /\ status = "idle"
    /\ err = "none"
    /\ errPath = <<>>
    /\ op = NoOp
    /\ calls = <<>>
    /\ output = <<>>
    /\ attempt = 0
    /\ reads = "none"
    /\ down = FALSE
    /\ result = "none"

\* ------------------------------------------------------------------ calls
Start(name, first) ==
    /\ status = "idle"
    /\ op' = Ins(name, Self(first), New(first), FlagA(first), FlagB(first), DryArg(first))
    /\ agenda' = <<first>>
    /\ status' = "running"
    /\ attempt' = 1
    /\ reads' = "none"
    /\ UNCHANGED <<store, store0, err, errPath, calls, output, down, result>>

CallCopy == \E src \in ArgPaths, dst \in ArgPaths, ow \in BOOLEAN :
                Start("copy", CopyI(src, dst, ow, FALSE))

CallMove == \E src \in ArgPaths, dst \in ArgPaths, ow \in BOOLEAN :
                Start("move", CopyI(src, dst, ow, TRUE))

CallRmdir == \E p \in ArgPaths, recursive \in BOOLEAN, dry \in {"none", "true", "false"} :
                Start("rmdir", RmdirI(p, recursive, dry))

CallMkdir == \E p \in ArgPaths \cup {Root}, parents \in BOOLEAN, exist_ok \in BOOLEAN :
                Start("mkdir", MkdirI(p, parents, exist_ok))

\* ------------------------------------------------------------------ steps
\* an exception that nothing catches: the whole call is abandoned
Raise(kind, path) ==
    /\ status' = "error"
    /\ err' = kind
    /\ errPath' = path
    /\ agenda' = <<>>

\* the statement group returned normally; rest is what is left to run
Continue(rest) ==
    /\ agenda' = rest
    /\ status' = IF rest = <<>> THEN "done" ELSE "running"
    /\ UNCHANGED <<err, errPath>>

Running(kind) == status = "running" /\ agenda # <<>> /\ Kind(Head(agenda)) = kind

\* mutant: the guard tests overwrite the wrong way round
AlreadyExists_Inverted(s, dst, overwrite) == Exists(s, dst) /\ overwrite

\* the overwrite guard of copy and move, lines 539 and 668
AlreadyExists(s, dst, overwrite) == Exists(s, dst) /\ ~overwrite

\* copy and move, lines 539-543 and 668-672: the overwrite guard, then the parent
\* chain of the destination
StepCopy ==
    /\ Running("copy")
    /\ LET i == Head(agenda) IN
       IF AlreadyExists(Seen(store), New(i), FlagA(i))
       THEN Raise("AlreadyExists", New(i))
       ELSE Continue(<<MkdirI(Parent(New(i)), TRUE, TRUE),
                       BranchI(Self(i), New(i), FlagA(i), FlagB(i))>>
                     \o Tail(agenda))
    /\ reads' = Read(reads)
    /\ UNCHANGED <<store, store0, op, calls, output, attempt, down, result>>

\* mutant: the asset itself is put on the list whether it exists or not
ToBeCreated_AlwaysSelf(s, p) ==
    <<p>> \o SelectSeq(Parents(p), LAMBDA a : ~Exists(s, a))

\* mutant: the asset and all its parents are put on the list without asking the store
ToBeCreated_Unchecked(s, p) == <<p>> \o Parents(p)

\* to_be_created of mkdir, lines 480-487, deepest first
ToBeCreated(s, p) ==
    LET missing == SelectSeq(Parents(p), LAMBDA a : ~Exists(s, a))
    IN IF ~Exists(s, p) THEN <<p>> \o missing ELSE missing

\* mutant: the loop walks to_be_created without reversing it
CreationOrder_AsListed(tbc) == tbc

\* the order in which mkdir issues its createAsset calls, line 496
CreationOrder(tbc) == Reverse(tbc)

\* mutant: the error names the deepest missing parent
NamedParent_Deepest(tbc) == tbc[2]

\* the asset the error of line 492 names: to_be_created[-1]
NamedParent(tbc) == tbc[Len(tbc)]

\* mutant: the existence queries are issued before the structure is checked
MkdirReads_Always(p, r) == Read(r)

\* the getAsset queries of mkdir, lines 480-486: reached only once line 477 has
\* accepted the structure of the path
MkdirReads(p, r) == IF IsAbsolute(p) THEN Read(r) ELSE r

\* mkdir up to its loop, lines 477-496
StepMkdir ==
    /\ Running("mkdir")
    /\ LET i == Head(agenda)
           tbc == ToBeCreated(Seen(store), Self(i))
       IN /\ IF ~IsAbsolute(Self(i)) THEN Raise("NotAbsolute", Self(i))
             ELSE IF Exists(Seen(store), Self(i)) /\ ~FlagB(i)
                  THEN Raise("AlreadyExists", Self(i))
             ELSE IF Len(tbc) > 1 /\ ~FlagA(i) THEN Raise("NoParent", NamedParent(tbc))
             ELSE Continue([n \in 1..Len(tbc) |-> CreateI(CreationOrder(tbc)[n])]
                           \o Tail(agenda))
          /\ reads' = MkdirReads(Self(i), reads)
    /\ UNCHANGED <<store, store0, op, calls, output, attempt, down, result>>

\* one ee.data.createAsset of the loop of mkdir, line 497
StepCreate ==
    /\ Running("create")
    /\ \E fail \in BOOLEAN :
        LET x == Self(Head(agenda))
            ok == ~fail /\ CreateOk(store, x)
        IN /\ calls' = Append(calls, CallRec("createAsset", x, <<>>, ok))
           /\ IF ok THEN store' = Put(store, x, "FOLDER") /\ Continue(Tail(agenda))
              ELSE UNCHANGED store /\ Raise("EEException", x)
    /\ UNCHANGED <<store0, op, output, attempt, reads, down, result>>

\* mutant: move unlinks the source before it copies it
AfterBranch_UnlinkFirst(i, folder) ==
    (IF FlagB(i) THEN <<UnlinkI(Self(i))>> ELSE <<>>)
    \o (IF folder
        THEN <<MkdirI(New(i), TRUE, TRUE), IterI(Self(i), New(i), FlagA(i), FlagB(i))>>
        ELSE <<CopyAssetI(Self(i), New(i))>>)

\* what follows the folder test of copy and move, lines 549-558 and 677-683
AfterBranch(i, folder) ==
    (IF folder THEN <<MkdirI(New(i), TRUE, TRUE), IterI(Self(i), New(i), FlagA(i), FlagB(i))>>
     ELSE <<CopyAssetI(Self(i), New(i))>>)
    \o (IF FlagB(i) THEN <<UnlinkI(Self(i))>> ELSE <<>>)

\* if self.is_folder(): is_type raises when the asset has no record
StepBranch ==
    /\ Running("branch")
    /\ LET i == Head(agenda) IN
       IF ~Exists(Seen(store), Self(i)) THEN Raise("NotFound", Self(i))
       ELSE Continue(AfterBranch(i, store[Self(i)] = "FOLDER") \o Tail(agenda))
    /\ reads' = Read(reads)
    /\ UNCHANGED <<store, store0, op, calls, output, attempt, down, result>>

\* the recursive calls of copy and move, one per child, lines 551-553 and 679-681
ChildCalls(s, i) ==
    LET ch == Iterdir(s, Self(i), FALSE)
    IN [n \in 1..Len(ch) |->
           CopyI(ch[n], Rebase(ch[n], Self(i), New(i)), FlagA(i), FlagB(i))]

StepIter ==
    /\ Running("iter")
    /\ LET i == Head(agenda)
           chk == IterdirCheck(Seen(store), Self(i))
       IN IF chk # "ok" THEN Raise(chk, Self(i))
          ELSE IF down THEN Raise("EEException", Self(i))
          ELSE Continue(ChildCalls(store, i) \o Tail(agenda))
    /\ reads' = Read(reads)
    /\ UNCHANGED <<store, store0, op, calls, output, attempt, down, result>>

\* ee.data.copyAsset(src, dst, allowOverwrite=True), lines 555 and 683
StepCopyAsset ==
    /\ Running("copyAsset")
    /\ \E fail \in BOOLEAN :
        LET i == Head(agenda)
            ok == ~fail /\ CopyOk(store, Self(i), New(i))
        IN /\ calls' = Append(calls, CallRec("copyAsset", Self(i), New(i), ok))
           /\ IF ok THEN store' = Put(store, New(i), store[Self(i)]) /\ Continue(Tail(agenda))
              ELSE UNCHANGED store /\ Raise("EEException", Self(i))
    /\ UNCHANGED <<store0, op, output, attempt, reads, down, result>>

\* Asset.unlink, lines 631-632
StepUnlink ==
    /\ Running("unlink")
    /\ LET x == Self(Head(agenda)) IN
       IF ~Exists(Seen(store), x) THEN Raise("NotFound", x) /\ UNCHANGED <<store, calls>>
       ELSE \E fail \in BOOLEAN :
             LET ok == ~fail /\ DeleteOk(store, x)
             IN /\ calls' = Append(calls, CallRec("deleteAsset", x, <<>>, ok))
                /\ IF ok THEN store' = Drop(store, x) /\ Continue(Tail(agenda))
                   ELSE UNCHANGED store /\ Raise("EEException", x)
    /\ reads' = Read(reads)
    /\ UNCHANGED <<store0, op, output, attempt, down, result>>

\* mutant: an omitted dry_run means a live run
EffectiveDryRun_NeverDefault(recursive, dry) == dry = "true"

\* mutant: rmdir treats every call as a dry run
EffectiveDryRun_AlwaysDry(recursive, dry) == TRUE

\* dry_run = dry_run if dry_run is not None else recursive, line 588
EffectiveDryRun(recursive, dry) == IF dry = "none" THEN recursive ELSE dry = "true"

\* mutant: the children are collected whatever recursive is
RmdirTargets_AlwaysRecursive(s, p, recursive) == AssetsOrdered(Iterdir(s, p, TRUE)) \o <<p>>

\* the assets rmdir hands to delete, in order, lines 599-618
RmdirTargets(s, p, recursive) ==
    (IF recursive THEN AssetsOrdered(Iterdir(s, p, TRUE)) ELSE <<>>) \o <<p>>

\* rmdir up to its first delete, lines 583-613
StepRmdir ==
    /\ Running("rmdir")
    /\ LET i == Head(agenda)
           tg == RmdirTargets(store, Self(i), FlagA(i))
           dry == EffectiveDryRun(FlagA(i), DryArg(i))
       IN IF ~Exists(Seen(store), Self(i)) THEN Raise("NotFound", Self(i))
          ELSE IF store[Self(i)] # "FOLDER" THEN Raise("WrongType", Self(i))
          ELSE Continue([n \in 1..Len(tg) |-> DeleteI(tg[n], dry)] \o Tail(agenda))
    /\ reads' = Read(reads)
    /\ UNCHANGED <<store, store0, op, calls, output, attempt, down, result>>

\* the local function delete of rmdir, lines 595-597
StepDelete ==
    /\ Running("delete")
    /\ LET i == Head(agenda) IN
       /\ output' = Append(output, Self(i))
       /\ IF FlagB(i) THEN Continue(Tail(agenda)) /\ UNCHANGED <<store, calls>>
          ELSE \E fail \in BOOLEAN :
                LET ok == ~fail /\ DeleteOk(store, Self(i))
                IN /\ calls' = Append(calls, CallRec("deleteAsset", Self(i), <<>>, ok))
                   /\ IF ok THEN store' = Drop(store, Self(i)) /\ Continue(Tail(agenda))
                      ELSE UNCHANGED store /\ Raise("EEException", Self(i))
    /\ UNCHANGED <<store0, op, attempt, reads, down, result>>

Next ==
    \/ CallCopy
    \/ CallMove
    \/ CallRmdir
    \/ CallMkdir
    \/ StepCopy
    \/ StepMkdir
    \/ StepCreate
    \/ StepBranch
    \/ StepIter
    \/ StepCopyAsset
    \/ StepUnlink
    \/ StepRmdir
    \/ StepDelete

Spec == Init /\ [][Next]_vars

\* ------------------------------------------------------------------ mkdir alone
\* mkdir called on deeper paths and on paths that are not absolute, and called
\* again with the same arguments once it has returned
MaxAttempts == 2

RelativePaths ==
    {<<>>, <<"a">>, <<"a", "b">>, <<"projects", "p">>, <<"projects", "p", "files", "a">>,
     <<"users", "p", "assets", "a">>, <<"a", "p", "assets">>}

MkdirArgs == PathsUpTo(InitDepth) \cup {Root} \cup RelativePaths

CallMkdirAny == \E p \in MkdirArgs, parents \in BOOLEAN, exist_ok \in BOOLEAN :
                   Start("mkdir", MkdirI(p, parents, exist_ok))

\* the caller repeats the mkdir call that has just returned; store0 and calls keep
\* describing the whole sequence of calls
MkdirAgain ==
    /\ status = "done" /\ Kind(op) = "mkdir"
    /\ attempt < MaxAttempts
    /\ attempt' = attempt + 1
    /\ agenda' = <<MkdirI(Self(op), FlagA(op), FlagB(op))>>
    /\ status' = "running"
    /\ reads' = "none"
    /\ UNCHANGED <<store, store0, err, errPath, op, calls, output, down, result>>

NextMkdir ==
    \/ CallMkdirAny
    \/ MkdirAgain
    \/ StepMkdir
    \/ StepCreate

SpecMkdir == Init /\ [][NextMkdir]_vars

\* the caller answers a mkdir(p, parents=True) that the store has failed with
\* mkdir(p, parents=True, exist_ok=True); store0 and calls keep describing the
\* whole sequence of calls
MkdirRetry ==
    /\ status = "error" /\ err = "EEException"
    /\ Kind(op) = "mkdir" /\ FlagA(op)
    /\ attempt < MaxAttempts
    /\ attempt' = attempt + 1
    /\ op' = Ins("mkdir", Self(op), <<>>, TRUE, TRUE, "none")
    /\ agenda' = <<MkdirI(Self(op), TRUE, TRUE)>>
    /\ status' = "running"
    /\ err' = "none"
    /\ errPath' = <<>>
    /\ reads' = "none"
    /\ UNCHANGED <<store, store0, calls, output, down, result>>

NextRetry ==
    \/ CallMkdirAny
    \/ MkdirRetry
    \/ StepMkdir
    \/ StepCreate

SpecRetry == Init /\ [][NextRetry]_vars

\* a second client of the same store creates a folder after mkdir has asked what
\* exists (lines 476-487) and before it has finished creating (lines 494-497);
\* a creation before the questions is the same as a call on another store
OtherCreates ==
    /\ Running("create")
    /\ \E x \in ArgPaths :
        /\ CreateOk(store, x)
        /\ store' = Put(store, x, "FOLDER")
    /\ UNCHANGED <<store0, agenda, status, err, errPath, op, calls, output, attempt,
                   reads, down, result>>

NextRace ==
    \/ CallMkdir
    \/ StepMkdir
    \/ StepCreate
    \/ OtherCreates

SpecRace == Init /\ [][NextRace]_vars

\* ------------------------------------------------------------------ rmdir previewed
\* rmdir(p, recursive=True, dry_run=True) has returned and the caller runs
\* rmdir(p, recursive=True, dry_run=False) on the store it left; output keeps the
\* list the preview returned and the second call appends its own list to it
RmdirLive ==
    /\ status = "done"
    /\ Kind(op) = "rmdir" /\ FlagA(op) /\ DryArg(op) = "true"
    /\ attempt = 1
    /\ attempt' = 2
    /\ op' = Ins("rmdir", Self(op), <<>>, TRUE, FALSE, "false")
    /\ agenda' = <<RmdirI(Self(op), TRUE, "false")>>
    /\ status' = "running"
    /\ reads' = "none"
    /\ UNCHANGED <<store, store0, err, errPath, calls, output, down, result>>

NextPreview ==
    \/ CallRmdir
    \/ RmdirLive
    \/ StepRmdir
    \/ StepDelete

SpecPreview == Init /\ [][NextPreview]_vars

\* ------------------------------------------------------------------ listing and globbing
\* the characters of a path component or of a pattern component
Chars(n) ==
    CASE n = "a" -> <<"a">>
      [] n = "b" -> <<"b">>
      [] n = "p" -> <<"p">>
      [] n = "img1" -> <<"i", "m", "g", "1">>
      [] n = "img2" -> <<"i", "m", "g", "2">>
      [] n = "tab1" -> <<"t", "a", "b", "1">>
      [] n = "assets" -> <<"a", "s", "s", "e", "t", "s">>
      [] n = "projects" -> <<"p", "r", "o", "j", "e", "c", "t", "s">>
      [] n = "img*" -> <<"i", "m", "g", "*">>
      [] n = "?mg1" -> <<"?", "m", "g", "1">>
      [] n = "*" -> <<"*">>

\* fnmatch of one component: * is any run of characters, ? any one character
RECURSIVE FnMatch(_, _)
FnMatch(n, q) ==
    IF q = <<>> THEN n = <<>>
    ELSE IF Head(q) = "*"
         THEN FnMatch(n, Tail(q)) \/ (n # <<>> /\ FnMatch(Tail(n), q))
    ELSE n # <<>> /\ (Head(q) = "?" \/ Head(q) = Head(n)) /\ FnMatch(Tail(n), Tail(q))

\* Asset.match with one relative pattern: PurePosixPath.match compares the pattern's
\* components with the last components of the path
Match(a, pat) ==
    /\ Len(pat) >= 1 /\ Len(pat) <= Len(a)
    /\ \A k \in 1..Len(pat) : FnMatch(Chars(a[Len(a) - Len(pat) + k]), Chars(pat[k]))

\* the patterns handed to glob and rglob, as their components
Patterns == {<<"img*">>, <<"*">>, <<"tab1">>, <<"?mg1">>, <<"img1", "*">>}

\* mutant: glob descends like rglob
Glob_AlwaysDeep(s, p, pat, deep) == SelectSeq(Iterdir(s, p, TRUE), LAMBDA a : Match(a, pat))

\* glob (deep FALSE) and rglob (deep TRUE), lines 699 and 713
Glob(s, p, pat, deep) == SelectSeq(Iterdir(s, p, deep), LAMBDA a : Match(a, pat))

RECURSIVE QueryPathsAt(_)
QueryPathsAt(d) ==
    IF d = 0 THEN {Root}
    ELSE {p \o <<QueryNames[i]>> : p \in QueryPathsAt(d - 1), i \in 1..Len(QueryNames)}

QueryPaths == UNION {QueryPathsAt(i) : i \in 1..InitDepth}

RECURSIVE QueryShapes(_)
QueryShapes(n) ==
    IF n = 0 THEN {{}}
    ELSE LET prev == QueryShapes(n - 1) IN
         prev \cup UNION {{T \cup {x} :
                              x \in {y \in QueryPaths :
                                        Parent(y) = Root \/ Parent(y) \in T}} : T \in prev}

QueryStores ==
    LET trees == UNION {Typings(T) : T \in QueryShapes(MaxNodes)}
    IN trees \cup {Put(f, Root, "FOLDER") : f \in trees}

\* a query that returns a list: it ends in one step, the store is only read
Listed(name, p, pat, deep, lst) ==
    /\ status = "idle"
    /\ op' = Ins(name, p, pat, deep, FALSE, "none")
    /\ attempt' = 1
    /\ reads' = Read(reads)
    /\ agenda' = <<>>
    /\ LET chk == IterdirCheck(Seen(store), p)
       IN IF chk # "ok" THEN Raise(chk, p) /\ UNCHANGED output
          ELSE IF down THEN Raise("EEException", p) /\ UNCHANGED output
          ELSE status' = "done" /\ output' = lst /\ UNCHANGED <<err, errPath>>
    /\ UNCHANGED <<store, store0, calls, down, result>>

CallIterdir == \E p \in {Root} \cup DOMAIN store, recursive \in BOOLEAN :
                  Listed("iterdir", p, <<>>, recursive, Iterdir(store, p, recursive))

CallGlob == \E p \in {Root} \cup DOMAIN store, pat \in Patterns :
               Listed("glob", p, pat, FALSE, Glob(store, p, pat, FALSE))

CallRglob == \E p \in {Root} \cup DOMAIN store, pat \in Patterns :
                Listed("rglob", p, pat, TRUE, Glob(store, p, pat, TRUE))

InitList ==
    /\ store \in QueryStores
    /\ store0 = store
    /\ agenda = <<>>
    /\ status = "idle"
    /\ err = "none"
    /\ errPath = <<>>
    /\ op = NoOp
    /\ calls = <<>>
    /\ output = <<>>
    /\ attempt = 0
    /\ reads = "none"
    /\ down = FALSE
    /\ result = "none"

NextList ==
    \/ CallIterdir
    \/ CallGlob
    \/ CallRglob

SpecList == InitList /\ [][NextList]_vars

\* ------------------------------------------------------------------ type predicates
TypeTags == {"FOLDER", "IMAGE", "IMAGE_COLLECTION", "TABLE", "FEATURE_COLLECTION"}

\* the number of assets of the stores the type predicates are asked about
TypeNodes == 2

\* stores of at most TypeNodes assets right below the project root, of any type
TypeStores ==
    LET trees == UNION {[T -> TypeTags] : T \in {U \in SUBSET QueryPathsAt(1) :
                                                      Cardinality(U) <= TypeNodes}}
    IN trees \cup {Put(f, Root, "FOLDER") : f \in trees}

\* Asset.is_type: "true" and "false" are its return values, "NotFound" and
\* "WrongType" the ValueError it raises
IsType(s, p, t, raised) ==
    IF ~Exists(Seen(s), p) THEN "NotFound"
    ELSE IF s[p] = t THEN "true"
    ELSE IF raised THEN "WrongType"
    ELSE "false"

\* Asset.is_feature_collection: the "or" of line 360 evaluates its second operand
\* only when the first has returned False
IsFeatureCollection(s, p, raised) ==
    LET first == IsType(s, p, "FEATURE_COLLECTION", raised)
    IN IF first = "false" THEN IsType(s, p, "TABLE", raised) ELSE first

\* a query that returns a boolean: it ends in one step, the store is only read
Answered(name, p, t, raised, r) ==
    /\ status = "idle"
    /\ op' = Ins(name, p, <<>>, raised, FALSE, t)
    /\ attempt' = 1
    /\ reads' = Read(reads)
    /\ agenda' = <<>>
    /\ IF r \in {"true", "false"}
       THEN status' = "done" /\ result' = r /\ UNCHANGED <<err, errPath>>
       ELSE Raise(r, p) /\ UNCHANGED result
    /\ UNCHANGED <<store, store0, calls, output, down>>

TypeArgs == QueryPathsAt(1) \cup {Root}

CallIsType == \E p \in TypeArgs, t \in TypeTags, raised \in BOOLEAN :
                 Answered("is_type", p, t, raised, IsType(store, p, t, raised))

CallIsFolder == \E p \in TypeArgs, raised \in BOOLEAN :
                   Answered("is_folder", p, "FOLDER", raised,
                            IsType(store, p, "FOLDER", raised))

CallIsImage == \E p \in TypeArgs, raised \in BOOLEAN :
                  Answered("is_image", p, "IMAGE", raised, IsType(store, p, "IMAGE", raised))

CallIsImageCollection == \E p \in TypeArgs, raised \in BOOLEAN :
                            Answered("is_image_collection", p, "IMAGE_COLLECTION", raised,
                                     IsType(store, p, "IMAGE_COLLECTION", raised))

CallIsFeatureCollection == \E p \in TypeArgs, raised \in BOOLEAN :
                              Answered("is_feature_collection", p, "FEATURE_COLLECTION", raised,
                                       IsFeatureCollection(store, p, raised))

InitType ==
    /\ store \in TypeStores
    /\ store0 = store
    /\ agenda = <<>>
    /\ status = "idle"
    /\ err = "none"
    /\ errPath = <<>>
    /\ op = NoOp
    /\ calls = <<>>
    /\ output = <<>>
    /\ attempt = 0
    /\ reads = "none"
    /\ down = FALSE
    /\ result = "none"

NextType ==
    \/ CallIsType
    \/ CallIsFolder
    \/ CallIsImage
    \/ CallIsImageCollection
    \/ CallIsFeatureCollection

SpecType == InitType /\ [][NextType]_vars

\* ------------------------------------------------------------------ store outages
\* Asset.exists, lines 183-190: every ee.EEException of getAsset is taken for a
\* missing record
ExistsAnswer(s, p, raised) ==
    IF Exists(Seen(s), p) THEN "true"
    ELSE IF raised THEN "NotFound"
    ELSE "false"

CallExists == \E p \in ArgPaths, raised \in BOOLEAN :
                 Answered("exists", p, "none", raised, ExistsAnswer(store, p, raised))

\* the store starts or stops refusing queries (network, auth, quota)
Outage ==
    /\ down' = ~down
    /\ UNCHANGED <<store, agenda, status, err, errPath, op, store0, calls, output,
                   attempt, reads, result>>

NextFlaky ==
    \/ Next
    \/ CallExists
    \/ Outage

SpecFlaky == Init /\ [][NextFlaky]_vars

\* ------------------------------------------------------------------ construction
\* Strings are sequences of characters; a parsed path is the pair of its root
\* ("", "/" or "//") and its components.
MaxLen == 4

Alphabet == {"/", "a", "."}

Strings == UNION {[1..n -> Alphabet] : n \in 0..MaxLen}

RECURSIVE LeadingSlashes(_)
LeadingSlashes(x) ==
    IF x = <<>> \/ Head(x) # "/" THEN 0 ELSE 1 + LeadingSlashes(Tail(x))

\* the root PurePosixPath keeps: exactly two leading separators stay two, any other
\* number becomes one
RootOf(x) ==
    IF LeadingSlashes(x) = 0 THEN <<>>
    ELSE IF LeadingSlashes(x) = 2 THEN <<"/", "/">>
    ELSE <<"/">>

\* x cut at its separators
RECURSIVE Split(_)
Split(x) ==
    IF \A n \in 1..Len(x) : x[n] # "/" THEN <<x>>
    ELSE LET k == CHOOSE n \in 1..Len(x) : x[n] = "/" /\ \A m \in 1..(n - 1) : x[m] # "/"
         IN <<SubSeq(x, 1, k - 1)>> \o Split(SubSeq(x, k + 1, Len(x)))

\* PurePosixPath(x): empty components and "." components are dropped
PurePosixPath(x) == <<RootOf(x), SelectSeq(Split(x), LAMBDA c : c # <<>> /\ c # <<".">>)>>

RootPart(path) == path[1]
Components(path) == path[2]

RECURSIVE Join(_)
Join(cs) ==
    IF cs = <<>> THEN <<>>
    ELSE IF Len(cs) = 1 THEN cs[1]
    ELSE cs[1] \o <<"/">> \o Join(Tail(cs))

\* Asset.__str__, as_posix of the path
AsPosix(path) ==
    IF RootPart(path) = <<>> /\ Components(path) = <<>> THEN <<".">>
    ELSE RootPart(path) \o Join(Components(path))

\* Asset.parts: the root, when there is one, is the first part
Parts(path) ==
    IF RootPart(path) = <<>> THEN Components(path)
    ELSE <<RootPart(path)>> \o Components(path)

\* Asset(x), lines 25-26: the first character of an absolute path is cut off and
\* what is left is parsed again
AssetOf(x) ==
    LET path == PurePosixPath(x)
    IN IF RootPart(path) # <<>> THEN PurePosixPath(Tail(AsPosix(path))) ELSE path

\* Asset.__eq__, line 58
AssetEq(a, b) == a = PurePosixPath(AsPosix(b))

Built(x, value, n) ==
    /\ op' = Ins("Asset", x, <<>>, FALSE, FALSE, "none")
    /\ output' = Append(output, value)
    /\ attempt' = n
    /\ status' = "done"
    /\ UNCHANGED <<store, store0, agenda, err, errPath, calls, reads, down, result>>

\* a = Asset(x)
CallAsset == \E x \in Strings : status = "idle" /\ Built(x, AssetOf(x), 1)

\* Asset(str(a))
CallAssetOfStr ==
    /\ status = "done" /\ Kind(op) = "Asset" /\ attempt = 1
    /\ Built(Self(op), AssetOf(AsPosix(output[1])), 2)

InitParse ==
    /\ store = [q \in {} |-> "NONE"]
    /\ store0 = store
    /\ agenda = <<>>
    /\ status = "idle"
    /\ err = "none"
    /\ errPath = <<>>
    /\ op = NoOp
    /\ calls = <<>>
    /\ output = <<>>
    /\ attempt = 0
    /\ reads = "none"
    /\ down = FALSE
    /\ result = "none"

NextParse ==
    \/ CallAsset
    \/ CallAssetOfStr

SpecParse == InitParse /\ [][NextParse]_vars

\* ------------------------------------------------------------------ comparisons
\* the longest string that is compared
OrderLen == 3

OrderAlphabet == {"/", "-", "a"}

\* every short string of separators, dashes and letters, and the pair a/b, a-b
OrderStrings ==
    UNION {[1..n -> OrderAlphabet] : n \in 0..OrderLen}
    \cup {<<"a", "/", "b">>, <<"a", "-", "b">>}

\* the code point of a character
CharCode(c) ==
    CASE c = "-" -> 45
      [] c = "." -> 46
      [] c = "/" -> 47
      [] c = "a" -> 97
      [] c = "b" -> 98

\* x < y for two strings: the first differing character decides, a proper prefix
\* is smaller
RECURSIVE StrLess(_, _)
StrLess(x, y) ==
    IF y = <<>> THEN FALSE
    ELSE IF x = <<>> THEN TRUE
    ELSE IF Head(x) # Head(y) THEN CharCode(Head(x)) < CharCode(Head(y))
    ELSE StrLess(Tail(x), Tail(y))

\* a < b for two tuples of parts: the first differing part decides, a proper prefix
\* is smaller
RECURSIVE PartsLess(_, _)
PartsLess(a, b) ==
    IF b = <<>> THEN FALSE
    ELSE IF a = <<>> THEN TRUE
    ELSE IF Head(a) # Head(b) THEN StrLess(Head(a), Head(b))
    ELSE PartsLess(Tail(a), Tail(b))

\* mutant: the joined strings are compared
Lt_Joined(a, b) == StrLess(AsPosix(a), AsPosix(b))

\* Asset.__lt__, line 42: self._path < PurePosixPath(str(other))
Lt(a, b) == PartsLess(Parts(a), Parts(PurePosixPath(AsPosix(b))))

\* Asset.__gt__, line 46
Gt(a, b) == PartsLess(Parts(PurePosixPath(AsPosix(b))), Parts(a))

\* Asset.__le__, line 50
Le(a, b) == ~PartsLess(Parts(PurePosixPath(AsPosix(b))), Parts(a))

\* Asset.__ge__, line 54
Ge(a, b) == ~PartsLess(Parts(a), Parts(PurePosixPath(AsPosix(b))))

\* a method of two assets that returns a boolean without any store call
Compared(name, x, y, r) ==
    /\ op' = Ins(name, x, y, FALSE, FALSE, "none")
    /\ result' = IF r THEN "true" ELSE "false"
    /\ attempt' = 1
    /\ status' = "done"
    /\ UNCHANGED <<store, store0, agenda, err, errPath, calls, output, reads, down>>

CallLt ==
    /\ status = "idle"
    /\ \E x \in OrderStrings, y \in OrderStrings :
          Compared("lt", x, y, Lt(AssetOf(x), AssetOf(y)))

CallGt ==
    /\ status = "idle"
    /\ \E x \in OrderStrings, y \in OrderStrings :
          Compared("gt", x, y, Gt(AssetOf(x), AssetOf(y)))

CallLe ==
    /\ status = "idle"
    /\ \E x \in OrderStrings, y \in OrderStrings :
          Compared("le", x, y, Le(AssetOf(x), AssetOf(y)))

CallGe ==
    /\ status = "idle"
    /\ \E x \in OrderStrings, y \in OrderStrings :
          Compared("ge", x, y, Ge(AssetOf(x), AssetOf(y)))

\* a == b, line 58
CallEq ==
    /\ status = "idle"
    /\ \E x \in OrderStrings, y \in OrderStrings :
          Compared("eq", x, y, AssetEq(AssetOf(x), AssetOf(y)))

\* hash(a): the class body defines __eq__ (line 56) and no __hash__, so the
\* class has no hash method and hash() raises TypeError
CallHash ==
    /\ status = "idle"
    /\ \E x \in OrderStrings :
          /\ op' = Ins("hash", x, <<>>, FALSE, FALSE, "none")
          /\ attempt' = 1
          /\ Raise("TypeError", x)
          /\ UNCHANGED <<store, store0, calls, output, reads, down, result>>

NextOrder ==
    \/ CallLt
    \/ CallGt
    \/ CallLe
    \/ CallGe
    \/ CallEq
    \/ CallHash

SpecOrder == InitParse /\ [][NextOrder]_vars

\* ------------------------------------------------------------------ parents
\* the longest path whose parents are asked for
PathLen == 5

PathWords == {"projects", "p", "assets", "a"}

AnyPaths == UNION {[1..n -> PathWords] : n \in 0..PathLen}

\* a.parents
CallParents ==
    /\ status = "idle"
    /\ \E p \in AnyPaths :
          /\ op' = Ins("parents", p, <<>>, FALSE, FALSE, "none")
          /\ output' = Parents(p)
          /\ attempt' = 1
          /\ status' = "done"
          /\ UNCHANGED <<store, store0, agenda, err, errPath, calls, reads, down, result>>

NextParents ==
    \/ CallParents

SpecParents == InitParse /\ [][NextParents]_vars

\* ------------------------------------------------------------------ descriptions
\* desc[:100], line 750
DescLimit == 100

\* the inputs are words of at most DescWord characters repeated 1 or DescRepeat times
DescWord == 2
DescRepeat == 101

DescAlphabet == {"a", " ", "/", "?", "(", "@", "é"}

RECURSIVE Repeat(_, _)
Repeat(w, n) == IF n = 0 THEN <<>> ELSE w \o Repeat(w, n - 1)

Descriptions ==
    {Repeat(w, n) : w \in UNION {[1..k -> DescAlphabet] : k \in 0..DescWord},
                    n \in {1, DescRepeat}}

\* anyascii: an ASCII character is kept, an accented letter becomes its base letter
AnyAscii(desc) == [k \in 1..Len(desc) |-> IF desc[k] = "é" THEN "e" ELSE desc[k]]

\* re.sub of one entry of replacements: each of chars becomes r
Sub(desc, chars, r) == [k \in 1..Len(desc) |-> IF desc[k] \in chars THEN r ELSE desc[k]]

\* Asset.format_description, lines 738-750
FormatDescription(description) ==
    LET d0 == AnyAscii(description)
        d1 == Sub(d0, {" "}, "_")
        d2 == Sub(d1, {"/"}, "-")
        d3 == Sub(d2, {"?", "!", "¿", "*"}, ".")
        d4 == Sub(d3, {"(", ")", "[", "]", "{", "}"}, ":")
    IN SubSeq(d4, 1, IF Len(d4) < DescLimit THEN Len(d4) ELSE DescLimit)

CallFormatDescription ==
    /\ status = "idle"
    /\ \E description \in Descriptions :
          /\ op' = Ins("format_description", description, <<>>, FALSE, FALSE, "none")
          /\ result' = FormatDescription(description)
          /\ attempt' = 1
          /\ status' = "done"
          /\ UNCHANGED <<store, store0, agenda, err, errPath, calls, output, reads, down>>

NextDescription ==
    \/ CallFormatDescription

SpecDescription == InitParse /\ [][NextDescription]_vars

\* ------------------------------------------------------------------ properties
\* the arguments of the running call
Recursive == FlagA(op)
Overwrite == FlagA(op)
WithParents == FlagA(op)

Finished == status \in {"done", "error"}

IsDelete(c) == CallName(c) = "deleteAsset"

\* the mutating store call a step has just issued
Issued == calls'[Len(calls')]

\* the rmdir call runs with dry_run omitted
DryRunOmitted == Kind(op) = "rmdir" /\ DryArg(op) = "none"

DryRunInEffect ==
    Kind(op) = "rmdir" /\ (DryArg(op) = "true" \/ (DryArg(op) = "none" /\ Recursive))

\* C2: a dry run of rmdir issues no deleteAsset and leaves the store as it was; when
\* recursive it returns every descendant of p exactly once, by decreasing depth,
\* and then p itself as the last element.
C2_DryRunPreview ==
    DryRunInEffect =>
        /\ calls = <<>>
        /\ store = store0
        /\ (status = "done" /\ Recursive) =>
              LET n == Len(output) IN
              /\ n = Cardinality(Descendants(store0, Self(op))) + 1
              /\ output[n] = Self(op)
              /\ {output[j] : j \in 1..(n - 1)} = Descendants(store0, Self(op))
              /\ \A j \in 1..(n - 2) : Len(output[j]) >= Len(output[j + 1])

\* an explicit dry run has previewed a folder that holds a folder that holds an asset
C2_Witness ==
    /\ Kind(op) = "rmdir" /\ DryArg(op) = "true" /\ Recursive /\ status = "done"
    /\ Len(output) = 3
    /\ Len(output[1]) > Len(output[2])

\* the running call is rmdir(p, recursive=True, dry_run=False)
LiveRecursiveRmdir == Kind(op) = "rmdir" /\ Recursive /\ DryArg(op) = "false"

\* C3: in rmdir(p, recursive=True, dry_run=False) every deleteAsset is issued on an
\* asset that has no child left in the store, nothing is deleted after p, and the
\* call that completes has issued deleteAsset(p) last.
C3_DeepestFirst ==
    [][(LiveRecursiveRmdir /\ Len(calls') = Len(calls) + 1) =>
          /\ IsDelete(Issued)
          /\ Children(store, CallPath(Issued)) = {}
          /\ \A n \in 1..Len(calls) : CallPath(calls[n]) # Self(op)
          /\ status' = "done" => CallPath(Issued) = Self(op)]_vars

\* F held F/y and F/y/z: three deletes went through, F/y/z, F/y and F, and nothing
\* of F is left
C3_Witness ==
    /\ LiveRecursiveRmdir /\ status = "done"
    /\ Len(calls) = 3
    /\ \E x \in DOMAIN store0 : Len(x) = Len(Self(op)) + 2 /\ IsRelativeTo(x, Self(op))
    /\ ~Exists(store, Self(op))

LiveFlatRmdirOfFull ==
    /\ Kind(op) = "rmdir" /\ ~Recursive /\ DryArg(op) \in {"none", "false"}
    /\ Children(store0, Self(op)) # {}

\* C5: a live rmdir(p) with recursive=False on a folder that has children never
\* returns normally and removes neither p nor any child: it ends in the store's error.
C5_NonEmptyRaises ==
    LiveFlatRmdirOfFull =>
        /\ store = store0
        /\ status # "done"
        /\ status = "error" => err = "EEException"

\* the store has refused deleteAsset(p) of a folder with children
C5_Witness ==
    /\ LiveFlatRmdirOfFull /\ status = "error"
    /\ calls = <<CallRec("deleteAsset", Self(op), <<>>, FALSE)>>

\* C6: after every move(A, B, overwrite) that returns without error, A has no record
\* and B has one.
C6_MoveSuccess ==
    (Kind(op) = "move" /\ status = "done") =>
        (~Exists(store, Self(op)) /\ Exists(store, New(op)))

\* the non-folder assets at or below p
Leaves(s, p) == {x \in DOMAIN s : IsRelativeTo(x, p) /\ s[x] # "FOLDER"}

\* C7: at every moment of move(A, B), and after it aborted, every leaf that was at or
\* under A when the call started has a record at its source identifier or at its
\* mapped destination identifier.
C7_MoveKeepsLeaves ==
    Kind(op) = "move" =>
        \A x \in Leaves(store0, Self(op)) :
            Exists(store, x) \/ Exists(store, Rebase(x, Self(op), New(op)))

\* the call is copy or move with overwrite=False onto a destination that exists
GuardedOntoExisting ==
    /\ Kind(op) \in {"copy", "move"} /\ ~Overwrite
    /\ Exists(store0, New(op))

\* C8: copy and move with overwrite=False onto an existing destination raise
\* AlreadyExists naming it, as their first step, with no mutating store call issued
\* and the store unchanged.
C8_OverwriteGuard ==
    GuardedOntoExisting =>
        /\ calls = <<>>
        /\ store = store0
        /\ status # "done"
        /\ status = "running" =>
              agenda = <<CopyI(Self(op), New(op), Overwrite, Kind(op) = "move")>>
        /\ status = "error" => (err = "AlreadyExists" /\ errPath = New(op))

\* a move of an existing folder onto an existing destination has been refused
C8_Witness ==
    /\ GuardedOntoExisting /\ Kind(op) = "move" /\ status = "error"
    /\ TypeOf(store0, Self(op)) = "FOLDER" /\ Self(op) # New(op)

\* the paths below p, relative to p, each with its type
RelativeTree(s, p) ==
    {<<SubSeq(x, Len(p) + 1, Len(x)), s[x]>> : x \in Descendants(s, p)}

\* C9: after every copy(A, B, overwrite) that returns without error B exists and, when
\* A is a folder, B is a folder whose recursive listing has the relative paths and
\* types of the recursive listing of A.
C9_CopyRoundTrip ==
    (Kind(op) = "copy" /\ status = "done") =>
        /\ Exists(store, New(op))
        /\ TypeOf(store0, Self(op)) = "FOLDER" =>
              /\ TypeOf(store, New(op)) = "FOLDER"
              /\ RelativeTree(store, New(op)) = RelativeTree(store, Self(op))

\* C10: every createAsset(x) that mkdir(parents=True) issues for an asset x below the
\* project root, called directly or by copy and move, finds the parent of x in the
\* store, unless that parent is the project root.
C10_ParentsFirst ==
    [][((Kind(op) = "mkdir" => WithParents) /\ Len(calls') = Len(calls) + 1
         /\ CallName(Issued) = "createAsset" /\ Depth(CallPath(Issued)) >= 1) =>
          (Parent(CallPath(Issued)) = Root \/ Exists(store, Parent(CallPath(Issued))))]_vars

\* mkdir(p, parents=True) has created a missing parent and then p
C10_Witness ==
    /\ Kind(op) = "mkdir" /\ WithParents /\ status = "done"
    /\ Len(calls) = 2 /\ CallPath(calls[2]) = Self(op) /\ CallPath(calls[1]) = Parent(Self(op))
    /\ ~Exists(store0, Parent(Self(op))) /\ Exists(store, Self(op))

\* ------------------------------------------------------------------ mkdir
ExistOk == FlagB(op)

\* mkdir(p, parents=False) is the first call, p lies below a folder of the project
\* and that folder has no record
MissingParent ==
    /\ Kind(op) = "mkdir" /\ attempt = 1 /\ ~WithParents
    /\ IsAbsolute(Self(op)) /\ Depth(Self(op)) >= 2
    /\ ~Exists(store0, Parent(Self(op)))

\* the ancestors of p below the project root that have no record
MissingAncestors(s, p) ==
    {a \in PathsUpTo(MaxDepth) : Len(a) < Len(p) /\ IsRelativeTo(p, a) /\ ~Exists(s, a)}

\* C11 as stated: mkdir(p, parents=False) on an absolute path whose parent folder is
\* missing ends in an error that names the parent of p and issues no createAsset,
\* however many ancestors are missing.
C11_NamesParent ==
    (MissingParent /\ Finished) =>
        /\ status = "error" /\ err = "NoParent" /\ errPath = Parent(Self(op))
        /\ calls = <<>> /\ store = store0

\* C11: mkdir(p, parents=False) on an absolute path whose parent folder is missing
\* ends in an error that names the shallowest missing ancestor of p, which is the
\* parent of p only when no other ancestor is missing, and issues no createAsset.
C11_NamesShallowestMissing ==
    (MissingParent /\ Finished) =>
        /\ status = "error" /\ err = "NoParent"
        /\ errPath \in MissingAncestors(store0, Self(op))
        /\ \A a \in MissingAncestors(store0, Self(op)) : Len(errPath) <= Len(a)
        /\ calls = <<>> /\ store = store0

\* mkdir(p, parents=False) has failed with two ancestors of p missing
C11_Witness ==
    /\ MissingParent /\ status = "error"
    /\ Cardinality(MissingAncestors(store0, Self(op))) = 2

\* the records the store has gained since the first call began
Created == DOMAIN store \ DOMAIN store0

\* C12: after mkdir(p, parents=True, exist_ok=True) has succeeded on an absolute
\* path p that had no record, the same call made again raises nothing, issues no
\* createAsset and leaves the store as the first call left it: p and its missing
\* ancestors added as folders, everything else as it was.
C12_MkdirIdempotent ==
    (Kind(op) = "mkdir" /\ attempt >= 2 /\ WithParents /\ ExistOk
     /\ IsAbsolute(Self(op)) /\ ~Exists(store0, Self(op))) =>
        /\ status # "error"
        /\ Created = {Self(op)} \cup MissingAncestors(store0, Self(op))
        /\ \A x \in Created : store[x] = "FOLDER"
        /\ \A n \in 1..Len(Parents(Self(op))) :
              TypeOf(store, Parents(Self(op))[n]) = "FOLDER"
        /\ \A x \in DOMAIN store0 : x \in DOMAIN store /\ store[x] = store0[x]
        /\ Len(calls) = Cardinality(Created)
        /\ \A n \in 1..Len(calls) : CallOk(calls[n])

\* the second mkdir(p, parents=True, exist_ok=True) has returned after the first
\* one created p and a missing parent
C12_Witness ==
    /\ Kind(op) = "mkdir" /\ attempt = 2 /\ status = "done" /\ WithParents /\ ExistOk
    /\ ~Exists(store0, Self(op)) /\ Len(calls) >= 2

\* C13: mkdir(p) on a path that is not absolute raises before any store call: no
\* query and no createAsset is issued.
C13_NotAbsoluteIsLocal ==
    (Kind(op) = "mkdir" /\ ~IsAbsolute(Self(op))) =>
        /\ reads = "none" /\ calls = <<>> /\ store = store0
        /\ Finished => (status = "error" /\ err = "NotAbsolute")

\* mkdir has failed on a path of four components that is not absolute
C13_Witness ==
    /\ Kind(op) = "mkdir" /\ ~IsAbsolute(Self(op)) /\ Len(Self(op)) = 4
    /\ status = "error" /\ err = "NotAbsolute"

\* ------------------------------------------------------------------ listing
\* the elements of a sequence
Range(f) == {f[n] : n \in 1..Len(f)}

NameIndex(n) == CHOOSE k \in 1..Len(StoreOrder) : StoreOrder[k] = n

\* x comes before y in a depth-first pre-order walk that takes siblings in store
\* order: x is an ancestor of y, or where the two paths part x takes the earlier name
PreOrderBefore(x, y) ==
    \/ Len(x) < Len(y) /\ IsRelativeTo(y, x)
    \/ \E k \in 1..Len(x) :
          /\ k <= Len(y)
          /\ SubSeq(x, 1, k - 1) = SubSeq(y, 1, k - 1)
          /\ x[k] # y[k]
          /\ NameIndex(x[k]) < NameIndex(y[k])

\* C14: iterdir(p, recursive=True) on a folder or on the project returns every
\* descendant of p exactly once, in depth-first pre-order with siblings in the
\* store's listing order.
C14_RecursivePreOrder ==
    (Kind(op) = "iterdir" /\ Recursive /\ status = "done") =>
        /\ Range(output) = Descendants(store, Self(op))
        /\ Len(output) = Cardinality(Descendants(store, Self(op)))
        /\ \A m, n \in 1..Len(output) : m < n => PreOrderBefore(output[m], output[n])

\* a recursive listing has returned a folder, its child and then its next sibling
C14_Witness ==
    /\ Kind(op) = "iterdir" /\ Recursive /\ status = "done" /\ Len(output) = 3
    /\ Parent(output[2]) = output[1] /\ Parent(output[3]) = Parent(output[1])

\* lst lists exactly the members of S, each once, in the order they have in full
IsSubsequenceOf(lst, S, full) ==
    /\ Range(lst) = S
    /\ Len(lst) = Cardinality(S)
    /\ \A m, n \in 1..Len(lst) : m < n =>
          \E i, j \in 1..Len(full) : i < j /\ full[i] = lst[m] /\ full[j] = lst[n]

\* C15: glob(p, pattern) returns exactly the children of p that match the pattern
\* and rglob(p, pattern) exactly the descendants of p that match, each in the
\* order of the corresponding listing.
C15_GlobFilters ==
    /\ (Kind(op) = "glob" /\ status = "done") =>
          IsSubsequenceOf(output, {q \in Children(store, Self(op)) : Match(q, New(op))},
                          Iterdir(store, Self(op), FALSE))
    /\ (Kind(op) = "rglob" /\ status = "done") =>
          IsSubsequenceOf(output, {q \in Descendants(store, Self(op)) : Match(q, New(op))},
                          Iterdir(store, Self(op), TRUE))

\* glob with the pattern img* on the children img1, img2 and tab1 has returned
\* img1 and img2
C15_Witness ==
    /\ Kind(op) = "glob" /\ status = "done" /\ New(op) = <<"img*">>
    /\ Cardinality(Children(store, Self(op))) = 3
    /\ output = <<Self(op) \o <<"img1">>, Self(op) \o <<"img2">>>>

\* ------------------------------------------------------------------ type predicates
Raised == FlagA(op)

TypePredicates ==
    {"is_type", "is_folder", "is_image", "is_image_collection", "is_feature_collection"}

\* C16: with raised=False the type predicates applied to a path that has no record
\* return false and do not raise; an error for the missing record is raised only
\* with raised=True.
C16_MissingIsFalse ==
    (Kind(op) \in TypePredicates /\ Finished /\ ~Exists(store, Self(op))) =>
        IF Raised THEN status = "error" /\ err = "NotFound"
        ELSE status = "done" /\ result = "false"

\* C17: is_feature_collection(p, raised) returns true for every existing asset of
\* type FEATURE_COLLECTION or TABLE, whatever raised is; for an existing asset of
\* another type it returns false when raised is False and raises when it is True.
C17_TableIsFeatureCollection ==
    (Kind(op) = "is_feature_collection" /\ Finished /\ Exists(store, Self(op))) =>
        IF store[Self(op)] \in {"FEATURE_COLLECTION", "TABLE"}
        THEN status = "done" /\ result = "true"
        ELSE IF Raised THEN status = "error" /\ err = "WrongType"
        ELSE status = "done" /\ result = "false"

\* ------------------------------------------------------------------ store failures
\* C18: a query the store refuses ends the operation in the store's own error:
\* exists turns it neither into the answer false nor into a missing-asset error, and
\* mkdir, copy and move do not go on as if the asset were absent.
C18_FailurePropagates ==
    reads = "failed" => (status = "error" /\ err = "EEException")

\* the store after the accepted calls of cs, in order, on the store s
RECURSIVE Replay(_, _)
Replay(s, cs) ==
    IF cs = <<>> THEN s
    ELSE LET c == Head(cs)
             t == IF ~CallOk(c) THEN s
                  ELSE IF CallName(c) = "createAsset" THEN Put(s, CallPath(c), "FOLDER")
                  ELSE IF CallName(c) = "copyAsset" THEN Put(s, CallDest(c), s[CallPath(c)])
                  ELSE Drop(s, CallPath(c))
         IN Replay(t, Tail(cs))

\* the running call is a copy, a move or a live recursive rmdir
Traversal == Kind(op) \in {"copy", "move"} \/ LiveRecursiveRmdir

\* a store call of the running call has failed
StoreCallFailed == reads = "failed" \/ \E n \in 1..Len(calls) : ~CallOk(calls[n])

C20_ParseIdempotent ==
    (Kind(op) = "Asset" /\ attempt = 2) =>
        /\ AssetEq(output[2], output[1])
        /\ Parts(output[2]) = Parts(output[1])

\* ------------------------------------------------------------------ comparisons
\* the two assets of a comparison
Left == AssetOf(Self(op))
Right == AssetOf(New(op))

\* a comes strictly before b in the lexicographic order of the parts: at the first
\* position where the two differ a has run out of parts or has the smaller string
ComponentwiseBefore(a, b) ==
    \E k \in 1..Len(b) :
        /\ k <= Len(a) + 1
        /\ SubSeq(a, 1, k - 1) = SubSeq(b, 1, k - 1)
        /\ k = Len(a) + 1 \/ (a[k] # b[k] /\ StrLess(a[k], b[k]))

\* C21: <, >, <= and >= between two asset paths are the lexicographic order of
\* their component sequences, the components compared as strings.
C21_ComponentwiseOrder ==
    LET before == ComponentwiseBefore(Parts(Left), Parts(Right))
        after == ComponentwiseBefore(Parts(Right), Parts(Left))
        same == Parts(Left) = Parts(Right)
    IN /\ Kind(op) = "lt" => (result = "true") = before
       /\ Kind(op) = "gt" => (result = "true") = after
       /\ Kind(op) = "le" => (result = "true") = (before \/ same)
       /\ Kind(op) = "ge" => (result = "true") = (after \/ same)

\* a/b < a-b is true although the string a/b sorts after the string a-b
C21_Witness ==
    /\ Kind(op) = "lt" /\ result = "true"
    /\ Self(op) = <<"a", "/", "b">> /\ New(op) = <<"a", "-", "b">>
    /\ ~StrLess(Self(op), New(op))

\* C22: two assets built from different strings with the same components compare
\* equal, and every asset has a hash value, so that equal assets can be one set
\* element or dictionary key.
C22_EqualAndHashable ==
    /\ (Kind(op) = "eq" /\ Parts(Left) = Parts(Right)) => result = "true"
    /\ Kind(op) = "hash" => status = "done"

\* ------------------------------------------------------------------ parents
\* the prefix of p of n components
Prefix(p, n) == SubSeq(p, 1, n)

\* the prefix of p of n components is one of '', 'projects', 'projects/<owner>' and
\* 'projects/<owner>/assets'
ScaffoldPrefix(p, n) ==
    \/ n = 0
    \/ n \in {1, 2} /\ p[1] = "projects"
    \/ n = 3 /\ p[1] = "projects" /\ p[3] = "assets"

\* C23: parents(p) lists the proper prefixes of p from the immediate parent upward
\* without the four scaffolding prefixes and with every other one; for an absolute
\* p of at least 4 components these are the prefixes of 4 or more components.
C23_ParentsSkipScaffold ==
    Kind(op) = "parents" =>
        LET p == Self(op) IN
        /\ \A n \in 0..(Len(p) - 1) :
              (Prefix(p, n) \in Range(output)) = ~ScaffoldPrefix(p, n)
        /\ \A m \in 1..Len(output) :
              /\ Len(output[m]) < Len(p) /\ output[m] = Prefix(p, Len(output[m]))
              /\ \A n \in 1..Len(output) : m < n => Len(output[m]) > Len(output[n])
        /\ (IsAbsolute(p) /\ Len(p) >= 4) =>
              {Len(output[m]) : m \in 1..Len(output)} = 4..(Len(p) - 1)

\* the parents of projects/p/assets/a/a are asked for: only projects/p/assets/a
C23_Witness ==
    /\ Kind(op) = "parents" /\ IsAbsolute(Self(op)) /\ Len(Self(op)) = 5
    /\ output = <<Prefix(Self(op), 4)>>

\* ------------------------------------------------------------------ descriptions
\* the characters of the alphabet that a task description may hold: letters,
\* digits and . , : ; _ -
Accepted == {"a", "e", ".", ",", ":", ";", "_", "-"}

\* C24: format_description returns at most 100 characters, all of them among a-z,
\* A-Z, 0-9 and . , : ; _ -
C24_DescriptionAccepted ==
    Kind(op) = "format_description" =>
        /\ Len(result) <= DescLimit
        /\ \A k \in 1..Len(result) : result[k] \in Accepted

\* ------------------------------------------------------------------ order of move
\* C25: in move, the mutating call that follows a copyAsset(s, d) is deleteAsset(s);
\* a deleteAsset of a leaf comes right after the copyAsset of that leaf to its
\* place under the destination; a deleteAsset of a folder is issued when its
\* counterpart under the destination exists, every child it had when the call
\* started has been deleted, and whatever it holds has been put there by the move.
C25_CopyThenDelete ==
    [][(Kind(op) = "move" /\ Len(calls') = Len(calls) + 1) =>
          LET x == CallPath(Issued)
              d == Rebase(x, Self(op), New(op))
              copied == /\ Len(calls) >= 1
                        /\ CallName(calls[Len(calls)]) = "copyAsset"
              deleted(c) == \E n \in 1..Len(calls) :
                               IsDelete(calls[n]) /\ CallOk(calls[n]) /\ CallPath(calls[n]) = c
              arrived(c) == \E n \in 1..Len(calls) :
                               /\ CallOk(calls[n])
                               /\ \/ CallName(calls[n]) = "copyAsset" /\ CallDest(calls[n]) = c
                                  \/ CallName(calls[n]) = "createAsset" /\ CallPath(calls[n]) = c
          IN /\ copied => (IsDelete(Issued) /\ x = CallPath(calls[Len(calls)]))
             /\ (IsDelete(Issued) /\ TypeOf(store, x) # "FOLDER") =>
                   (copied /\ CallOk(calls[Len(calls)]) /\ CallDest(calls[Len(calls)]) = d)
             /\ (IsDelete(Issued) /\ TypeOf(store, x) = "FOLDER") =>
                   /\ Exists(store, d)
                   /\ \A c \in Children(store0, x) : deleted(c)
                   /\ \A c \in Children(store, x) : arrived(c)]_vars

\* a folder with one leaf has been moved: the folder is created at the destination,
\* the leaf copied and deleted, the source folder deleted last
C25_Witness ==
    /\ Kind(op) = "move" /\ status = "done" /\ Len(calls) = 4
    /\ CallName(calls[1]) = "createAsset" /\ CallPath(calls[1]) = New(op)
    /\ CallName(calls[2]) = "copyAsset" /\ Parent(CallPath(calls[2])) = Self(op)
    /\ IsDelete(calls[3]) /\ CallPath(calls[3]) = CallPath(calls[2])
    /\ IsDelete(calls[4]) /\ CallPath(calls[4]) = Self(op)

\* ------------------------------------------------------------------ mkdir retried
\* the store as the calls before the n-th had left it
StoreBefore(n) == Replay(store0, SubSeq(calls, 1, n - 1))

\* the n-th call is a createAsset that a working store accepts
Acceptable(n) ==
    CallName(calls[n]) = "createAsset" /\ CreateOk(StoreBefore(n), CallPath(calls[n]))

Failures == {n \in 1..Len(calls) : ~CallOk(calls[n])}

\* mkdir(p, parents=True) was aborted by the failure of a createAsset that the
\* store would have accepted
AbortedPartway ==
    /\ Kind(op) = "mkdir" /\ WithParents /\ Failures # {}
    /\ \A n \in Failures : (\A m \in Failures : n <= m) => Acceptable(n)

\* C26: when a createAsset of mkdir(p, parents=True) fails partway, what was
\* created stays and is a root-side prefix of the missing chain; the later
\* mkdir(p, parents=True, exist_ok=True) issues only creates that a working store
\* accepts, fails only if one of them fails, and when it returns p and all its
\* ancestors are folders and nothing but the missing chain was created.
C26_RetryCompletes ==
    AbortedPartway =>
        LET p == Self(op)
            chain == {p} \cup MissingAncestors(store0, p)
        IN /\ store = Replay(store0, calls)
           /\ Created \subseteq chain
           /\ \A x \in Created : \A a \in chain : Len(a) < Len(x) => a \in Created
           /\ \A x \in DOMAIN store0 : x \in DOMAIN store /\ store[x] = store0[x]
           /\ \A n \in 1..Len(calls) : Acceptable(n)
           /\ status = "error" => (err = "EEException" /\ ~CallOk(calls[Len(calls)]))
           /\ (attempt >= 2 /\ status = "done") =>
                 /\ Created = chain
                 /\ \A x \in chain : store[x] = "FOLDER"
                 /\ \A n \in 1..Len(Parents(p)) : TypeOf(store, Parents(p)[n]) = "FOLDER"

\* the first mkdir created one folder and failed on the next, the second created
\* the two folders that were still missing
C26_Witness ==
    /\ AbortedPartway /\ attempt = 2 /\ status = "done" /\ Len(calls) = 4
    /\ CallOk(calls[1]) /\ ~CallOk(calls[2]) /\ CallPath(calls[3]) = CallPath(calls[2])
    /\ CallPath(calls[4]) = Self(op)

\* ------------------------------------------------------------------ mkdir raced
\* C27: mkdir creates what was missing when it asked, whatever other clients
\* have created since: a createAsset for a folder that another client has
\* created in between is issued all the same, the store rejects it, and mkdir
\* ends with the store's error even under exist_ok=True.
C27_StaleReadRejected ==
    [][(Kind(op) = "mkdir" /\ Len(calls') = Len(calls) + 1) =>
          /\ CallName(Issued) = "createAsset"
          /\ ~Exists(store0, CallPath(Issued))
          /\ Exists(store, CallPath(Issued)) =>
                /\ ~CallOk(Issued)
                /\ store' = store
                /\ status' = "error" /\ err' = "EEException"
                /\ errPath' = CallPath(Issued)]_vars

\* mkdir(p, parents=True, exist_ok=True) found p missing, another client created
\* p, and the createAsset(p) of mkdir was rejected
C27_Witness ==
    /\ Kind(op) = "mkdir" /\ WithParents /\ ExistOk
    /\ status = "error" /\ err = "EEException" /\ errPath = Self(op)
    /\ ~Exists(store0, Self(op)) /\ Exists(store, Self(op))
    /\ Len(calls) >= 1
    /\ CallPath(calls[Len(calls)]) = Self(op) /\ ~CallOk(calls[Len(calls)])
    /\ \A n \in 1..Len(calls) : CallPath(calls[n]) = Self(op) => ~CallOk(calls[n])

\* ------------------------------------------------------------------ copy and move end
\* the source and what was below it when the call started
SourceTree == {Self(op)} \cup Descendants(store0, Self(op))

\* the identifiers copy and move are to write: the destination, its ancestors
\* and the images of the source tree
MappedTree ==
    {x \in PathsUpTo(MaxDepth) \cup {Root} : IsRelativeTo(New(op), x)}
    \cup {Rebase(x, Self(op), New(op)) : x \in SourceTree}

\* the identifier a store call writes
Written(c) == IF CallName(c) = "copyAsset" THEN CallDest(c) ELSE CallPath(c)

\* C28: copy and move of an existing source issue at most two store calls for
\* each asset of the source tree as it was when the call started, besides the
\* folders above the destination, and every asset they create or copy to is the
\* image of an asset of that tree or a folder at or above the destination.
C28_CallsBounded ==
    (Kind(op) \in {"copy", "move"} /\ Exists(store0, Self(op))) =>
        /\ Len(calls) <= 2 * Cardinality(SourceTree) + Depth(New(op))
        /\ \A n \in 1..Len(calls) :
              CallName(calls[n]) # "deleteAsset" => Written(calls[n]) \in MappedTree

\* ------------------------------------------------------------------ preview and live run
\* what rmdir(p, recursive=True, dry_run=True) returned
Preview == SubSeq(output, 1, Len(output) - Len(calls))

\* what the live rmdir that followed it has put on its own list so far
LiveList == SubSeq(output, Len(output) - Len(calls) + 1, Len(output))

PreviewedThenLive == Kind(op) = "rmdir" /\ attempt = 2

\* C29: the list rmdir(p, recursive=True, dry_run=True) returns has no
\* duplicates, and rmdir(p, recursive=True, dry_run=False) run on the same store
\* issues deleteAsset for the identifiers of that list, in its order, and
\* returns that very list.
C29_PreviewIsLiveEffect ==
    PreviewedThenLive =>
        /\ store = Replay(store0, calls)
        /\ \A m \in 1..Len(Preview) : \A n \in 1..Len(Preview) :
              Preview[m] = Preview[n] => m = n
        /\ Len(calls) <= Len(Preview)
        /\ \A n \in 1..Len(calls) :
              /\ CallName(calls[n]) = "deleteAsset"
              /\ CallPath(calls[n]) = Preview[n]
              /\ LiveList[n] = Preview[n]
        /\ status = "done" =>
              (LiveList = Preview /\ \A n \in 1..Len(calls) : CallOk(calls[n]))
        /\ status = "error" => (err = "EEException" /\ ~CallOk(calls[Len(calls)]))

\* the live run has deleted a folder with a folder and a leaf below it, as previewed
C29_Witness ==
    /\ PreviewedThenLive /\ status = "done"
    /\ Len(calls) >= 3 /\ LiveList = Preview
    /\ Depth(CallPath(calls[1])) > Depth(CallPath(calls[2]))
    /\ DOMAIN store = DOMAIN store0 \ (Descendants(store0, Self(op)) \cup {Self(op)})

\* ------------------------------------------------------------------ missing source
\* the call is copy or move of an asset that had no record when it started
SourceMissing == Kind(op) \in {"copy", "move"} /\ ~Exists(store0, Self(op))

\* C30: copy and move of a source without a record end with an error, never
\* with a return, and the store is at every moment as it was when the call
\* started: no folder above the destination has been created.
C30_MissingSourceUntouched ==
    SourceMissing =>
        /\ store = store0
        /\ Finished => status = "error"

\* ------------------------------------------------------------------ scaffolding
\* the project root had no record when the call started
RootUnbacked == ~Exists(store0, Root)

\* C31: when the project root has no record, every createAsset that mkdir, copy
\* and move issue names an identifier of at least four components, never
\* 'projects', 'projects/<owner>' or 'projects/<owner>/assets'.
C31_NoScaffoldCreated ==
    (RootUnbacked /\ Kind(op) \in {"mkdir", "copy", "move"}) =>
        \A n \in 1..Len(calls) :
            CallName(calls[n]) = "createAsset" =>
                (Len(CallPath(calls[n])) >= 4 /\ ~IsScaffold(CallPath(calls[n])))

====
